---- MODULE Spec2Model ----
(***************************************************************************)
(* Model of src/Circuit_breaker.py: the CircuitBreaker class (a sliding    *)
(* window of recent call results, a failure rate, and the state machine    *)
(* CLOSED -> OPEN -> HALF_OPEN -> CLOSED/OPEN driven by call()).           *)
(***************************************************************************)
EXTENDS Integers, Sequences, FiniteSets, TLC

VARIABLES
    cb,          \* the CircuitBreaker object: its fields
    now,         \* what time.time() returns
    calls,       \* number of call() made so far
    func_calls,  \* number of times the wrapped func was invoked (a stub's counter)
    recorded,    \* the outcomes appended to recent_calls since it was last empty by construction or clear()
    last,        \* the last call(): what it returned (res), the breaker before it, its time
    trials,      \* number of times func was invoked as a test call since HALF_OPEN was last entered
    inflight     \* per caller: the call() it is in the middle of (concurrent callers only)

vars == <<cb, now, calls, func_calls, recorded, last, trials, inflight>>

(***************************************************************************)
(* Bounds of the model.                                                    *)
(***************************************************************************)
MaxCalls    == 4   \* calls made in one run
MaxTime     == 2   \* the clock stops here, unless an OPEN breaker is waiting
MaxOpTime   == 1   \* longest time one invocation of func takes
MaxWindow   == 2   \* largest window_size
MaxHalfOpen == 2   \* largest half_open_max_calls
MaxWait     == 2   \* largest open_state_wait

\* failure_rate_threshold values tried (percent)
Thresholds == {0, 50, 100}

\* a configuration with a window of 21 results, and a threshold that
\* 11 failures in 20 calls meet exactly
WideConfig == [failure_rate_threshold |-> 55, window_size |-> 21,
               half_open_max_calls |-> 1, open_state_wait |-> 1]

(***************************************************************************)
(* Python floats.  _current_failure_rate computes (failures / len) * 100   *)
(* in IEEE-754 binary64: the quotient of the two ints is rounded to 53     *)
(* significant bits, ties to even, and so is its product with 100.  A      *)
(* float x >= 0 is modelled exactly, as [top, low, sh] with                *)
(*     x = (top + (low as a 52-bit binary fraction)) / 2^sh                *)
(* where low is 4 limbs of 13 bits, most significant first.                *)
(***************************************************************************)

\* 2^13: a binary64 has 52 = 4 * 13 bits after its leading bit
Limb == 8192

RECURSIVE Pow2(_)
Pow2(n) == IF n = 0 THEN 1 ELSE 2 * Pow2(n - 1)

\* the float 0.0
Float0 == [top |-> 0, low |-> <<0, 0, 0, 0>>, sh |-> 0]

\* the floats of the model
Floats == [top : Nat, low : Seq(Nat), sh : Nat]

\* x0 and the limbs x1..x4 with the carries out of each limb passed upwards
Norm(x0, x1, x2, x3, x4) ==
    LET y3 == x3 + x4 \div Limb
        y2 == x2 + y3 \div Limb
        y1 == x1 + y2 \div Limb
    IN  [top |-> x0 + y1 \div Limb,
         low |-> <<y1 % Limb, y2 % Limb, y3 % Limb, x4 % Limb>>]

RECURSIVE LeadShift(_, _)
\* the least s >= 0 with f * 2^s >= k, for f > 0
LeadShift(f, k) == IF f >= k THEN 0 ELSE 1 + LeadShift(2 * f, k)

\* int / int for 0 <= f <= k, 0 < k: the quotient rounded to 53 bits.
\* Long division gives the leading bit and 52 more, 13 at a time; the
\* remainder decides the rounding.
fdiv[f \in Nat, k \in Nat] ==
    IF f = 0 THEN Float0
    ELSE LET s  == LeadShift(f, k)
             n0 == f * Pow2(s)
             n1 == (n0 % k) * Limb
             n2 == (n1 % k) * Limb
             n3 == (n2 % k) * Limb
             n4 == (n3 % k) * Limb
             r  == n4 % k
             up == 2 * r > k \/ (2 * r = k /\ (n4 \div k) % 2 = 1)
             m  == Norm(n0 \div k, n1 \div k, n2 \div k, n3 \div k,
                        (n4 \div k) + (IF up THEN 1 ELSE 0))
         IN  [top |-> m.top, low |-> m.low, sh |-> s]

\* float * 100 for a float with 1 <= top <= 2 (or 0.0): the exact product
\* has 59 or 60 bits, and its lowest 6 or 7 are rounded away
fmul100[x \in Floats] ==
    IF x.top = 0 THEN Float0
    ELSE LET p    == Norm(100 * x.top, 100 * x.low[1], 100 * x.low[2],
                          100 * x.low[3], 100 * x.low[4])
             drop == IF p.top < 128 THEN 64 ELSE 128
             rest == p.low[4] % drop
             up   == \/ 2 * rest > drop
                     \/ 2 * rest = drop /\ (p.low[4] \div drop) % 2 = 1
             m    == Norm(p.top, p.low[1], p.low[2], p.low[3],
                          p.low[4] - rest + (IF up THEN drop ELSE 0))
         IN  [top |-> m.top, low |-> m.low, sh |-> x.sh]

\* float > int, compared exactly as Python compares them
fgt[v \in Floats, t \in Int] ==
    LET scaled == t * Pow2(v.sh)
    IN  v.top > scaled \/ (v.top = scaled /\ v.low # <<0, 0, 0, 0>>)

(***************************************************************************)
(* class CircuitBreaker                                                    *)
(***************************************************************************)

\* Python's None (time.time() is never negative)
None == -1

CLOSED    == "CLOSED"
OPEN      == "OPEN"
HALF_OPEN == "HALF_OPEN"

\* __init__
CircuitBreaker(frt, ws, homc, osw) ==
    [failure_rate_threshold |-> frt,
     window_size            |-> ws,
     half_open_max_calls    |-> homc,
     open_state_wait        |-> osw,
     state                  |-> CLOSED,
     last_failure_time      |-> None,
     recent_calls           |-> <<>>,
     half_open_calls        |-> 0,
     half_open_success      |-> 0]

\* a deque that, when full, keeps its oldest item and drops the new one
deque_append_drop_new(dq, n, b) ==
    IF n = 0 \/ Len(dq) >= n THEN dq ELSE Append(dq, b)

\* deque(maxlen=n).append(b): a full deque drops its leftmost item
deque_append(dq, n, b) ==
    IF n = 0 THEN dq
    ELSE IF Len(dq) = n THEN Append(Tail(dq), b)
    ELSE Append(dq, b)

\* deque.count(b)
deque_count(dq, b) == Cardinality({i \in 1..Len(dq) : dq[i] = b})

\* a failure rate over the capacity of the window instead of its length
current_failure_rate_of_capacity(self) ==
    IF self.recent_calls = <<>> THEN Float0
    ELSE LET failures == deque_count(self.recent_calls, FALSE)
         IN  fmul100[fdiv[failures, self.window_size]]

\* _current_failure_rate
current_failure_rate(self) ==
    IF self.recent_calls = <<>> THEN Float0
    ELSE LET failures == deque_count(self.recent_calls, FALSE)
         IN  fmul100[fdiv[failures, Len(self.recent_calls)]]

\* a move to OPEN that keeps the time of the trip before
transition_to_open_stale(so, tm) ==
    [so EXCEPT !.state = OPEN]

\* _transition_to_open, with time.time() = tm
transition_to_open(so, tm) ==
    [so EXCEPT !.state = OPEN, !.last_failure_time = tm]

\* a move to HALF_OPEN that keeps the counters of the episode before
transition_to_half_open_keep(sh) ==
    [sh EXCEPT !.state = HALF_OPEN]

\* a move to HALF_OPEN that resets half_open_calls only
transition_to_half_open_keep_success(sh) ==
    [sh EXCEPT !.state = HALF_OPEN, !.half_open_calls = 0]

\* _transition_to_half_open
transition_to_half_open(sh) ==
    [sh EXCEPT !.state = HALF_OPEN, !.half_open_calls = 0, !.half_open_success = 0]

\* _transition_to_closed
transition_to_closed(sc) ==
    [sc EXCEPT !.state = CLOSED, !.recent_calls = <<>>]

\* _on_success closing only after more than half_open_max_calls test calls
on_success_late(ss, ts) ==
    IF ss.state = HALF_OPEN
    THEN LET s1 == [ss EXCEPT !.half_open_calls = @ + 1, !.half_open_success = @ + 1]
         IN  IF s1.half_open_calls > s1.half_open_max_calls
                /\ s1.half_open_success = s1.half_open_calls
             THEN transition_to_closed(s1)
             ELSE s1
    ELSE LET s1 == [ss EXCEPT !.recent_calls = deque_append(@, ss.window_size, TRUE)]
         IN  IF fgt[current_failure_rate(s1), s1.failure_rate_threshold]
             THEN transition_to_open(s1, ts)
             ELSE s1

\* _on_success, with time.time() = ts
on_success(ss, ts) ==
    IF ss.state = HALF_OPEN
    THEN LET s1 == [ss EXCEPT !.half_open_calls = @ + 1, !.half_open_success = @ + 1]
         IN  IF s1.half_open_calls >= s1.half_open_max_calls
                /\ s1.half_open_success = s1.half_open_calls
             THEN transition_to_closed(s1)
             ELSE s1
    ELSE LET s1 == [ss EXCEPT !.recent_calls = deque_append(@, ss.window_size, TRUE)]
         IN  IF fgt[current_failure_rate(s1), s1.failure_rate_threshold]
             THEN transition_to_open(s1, ts)
             ELSE s1

\* _on_failure that reopens only when no test call of the episode succeeded
on_failure_lenient(sf, tf) ==
    IF sf.state = HALF_OPEN
    THEN IF sf.half_open_success = 0
         THEN transition_to_open([sf EXCEPT !.half_open_calls = @ + 1], tf)
         ELSE [sf EXCEPT !.half_open_calls = @ + 1]
    ELSE LET s1 == [sf EXCEPT !.recent_calls = deque_append(@, sf.window_size, FALSE)]
         IN  IF fgt[current_failure_rate(s1), s1.failure_rate_threshold]
             THEN transition_to_open(s1, tf)
             ELSE s1

\* _on_failure that records a failed test call in the window too
on_failure_append_always(sf, tf) ==
    LET s1 == [sf EXCEPT !.recent_calls = deque_append(@, sf.window_size, FALSE)]
    IN  IF sf.state = HALF_OPEN
        THEN transition_to_open([s1 EXCEPT !.half_open_calls = @ + 1], tf)
        ELSE IF fgt[current_failure_rate(s1), s1.failure_rate_threshold]
             THEN transition_to_open(s1, tf)
             ELSE s1

\* _on_failure, with time.time() = tf
on_failure(sf, tf) ==
    IF sf.state = HALF_OPEN
    THEN transition_to_open([sf EXCEPT !.half_open_calls = @ + 1], tf)
    ELSE LET s1 == [sf EXCEPT !.recent_calls = deque_append(@, sf.window_size, FALSE)]
         IN  IF fgt[current_failure_rate(s1), s1.failure_rate_threshold]
             THEN transition_to_open(s1, tf)
             ELSE s1

\* what a call hands its caller, and what func produces
NotPermittedOpen     == [kind |-> "raise", val |-> "CallNotPermittedException (Circuit is OPEN)"]
NotPermittedHalfOpen == [kind |-> "raise", val |-> "CallNotPermittedException (Too many test calls in HALF_OPEN)"]
ServiceSuccess       == [kind |-> "return", val |-> "Success!"]
ServiceFailed        == [kind |-> "raise", val |-> "Service failed!"]
Nothing              == [kind |-> "none", val |-> "none"]

\* a limit on test calls that keeps the last of them back
half_open_gate_early(sg) ==
    IF sg.state = HALF_OPEN /\ sg.half_open_calls + 1 >= sg.half_open_max_calls
    THEN [self |-> sg, exc |-> NotPermittedHalfOpen]
    ELSE [self |-> sg, exc |-> Nothing]

\* call(), lines 80-81: the limit on test calls in HALF_OPEN.
\* exc is the exception raised, Nothing when the call goes on to run func.
half_open_gate(sg) ==
    IF sg.state = HALF_OPEN /\ sg.half_open_calls >= sg.half_open_max_calls
    THEN [self |-> sg, exc |-> NotPermittedHalfOpen]
    ELSE [self |-> sg, exc |-> Nothing]

\* state rules that let a call through while OPEN within the wait
admission_no_raise(sa, ta) ==
    IF sa.state = OPEN
    THEN IF ta - sa.last_failure_time >= sa.open_state_wait
         THEN half_open_gate(transition_to_half_open(sa))
         ELSE [self |-> sa, exc |-> Nothing]
    ELSE half_open_gate(sa)

\* state rules that leave OPEN only when more than the wait has elapsed
admission_strict(sa, ta) ==
    IF sa.state = OPEN
    THEN IF ta - sa.last_failure_time > sa.open_state_wait
         THEN half_open_gate(transition_to_half_open(sa))
         ELSE [self |-> sa, exc |-> NotPermittedOpen]
    ELSE half_open_gate(sa)

\* state rules that count a call rejected in OPEN as a test call
admission_counting(sa, ta) ==
    IF sa.state = OPEN
    THEN IF ta - sa.last_failure_time >= sa.open_state_wait
         THEN half_open_gate(transition_to_half_open(sa))
         ELSE [self |-> [sa EXCEPT !.half_open_calls = @ + 1], exc |-> NotPermittedOpen]
    ELSE half_open_gate(sa)

\* state rules that close an OPEN breaker once the wait has elapsed
admission_to_closed(sa, ta) ==
    IF sa.state = OPEN
    THEN IF ta - sa.last_failure_time >= sa.open_state_wait
         THEN half_open_gate(transition_to_closed(sa))
         ELSE [self |-> sa, exc |-> NotPermittedOpen]
    ELSE half_open_gate(sa)

\* call(), lines 72-81: the state rules checked before func runs, with
\* time.time() = ta
admission(sa, ta) ==
    IF sa.state = OPEN
    THEN IF ta - sa.last_failure_time >= sa.open_state_wait
         THEN half_open_gate(transition_to_half_open(sa))
         ELSE [self |-> sa, exc |-> NotPermittedOpen]
    ELSE half_open_gate(sa)

\* a call() that records a failure of func and then returns None instead of
\* raising the exception again
call_swallow(s0, t0, outp, t1) ==
    LET adm == admission(s0, t0)
    IN  IF adm.exc # Nothing
        THEN [self |-> adm.self, ret |-> adm.exc, steps |-> <<>>,
              invoked |-> FALSE, produced |-> Nothing, admitted |-> adm.self]
        ELSE IF outp.kind = "return"
        THEN [self |-> on_success(adm.self, t1), ret |-> outp,
              steps |-> <<"_on_success">>,
              invoked |-> TRUE, produced |-> outp, admitted |-> adm.self]
        ELSE [self |-> on_failure(adm.self, t1), ret |-> [kind |-> "return", val |-> "None"],
              steps |-> <<"_on_failure">>,
              invoked |-> TRUE, produced |-> outp, admitted |-> adm.self]

\* call(func): the whole method for one sequential caller.  The state
\* rules are checked at time t0; func, if it is invoked, produces outp and
\* has ended at time t1, when the handler records the outcome (lines
\* 84-90).  steps lists the handlers run, admitted is the breaker as the
\* state rules left it.
call(s0, t0, outp, t1) ==
    LET adm == admission(s0, t0)
    IN  IF adm.exc # Nothing
        THEN [self |-> adm.self, ret |-> adm.exc, steps |-> <<>>,
              invoked |-> FALSE, produced |-> Nothing, admitted |-> adm.self]
        ELSE IF outp.kind = "return"
        THEN [self |-> on_success(adm.self, t1), ret |-> outp,
              steps |-> <<"_on_success">>,
              invoked |-> TRUE, produced |-> outp, admitted |-> adm.self]
        ELSE [self |-> on_failure(adm.self, t1), ret |-> outp,
              steps |-> <<"_on_failure">>,
              invoked |-> TRUE, produced |-> outp, admitted |-> adm.self]

(***************************************************************************)
(* One sequential caller: every call() runs from its first line to its     *)
(* last before the next one starts, and the clock advances in between and  *)
(* while func runs.                                                        *)
(***************************************************************************)

\* the callers, and a caller that is not inside call()
Threads == {1, 2}
Idle == [pc |-> "idle", mode |-> "none"]

\* the test calls of the episode after call() passed its state rules:
\* before is the breaker when call() started, adm what the rules returned
TrialsAfter(n, before, adm) ==
    LET entered == IF before.state = OPEN /\ adm.self.state = HALF_OPEN THEN 0 ELSE n
    IN  IF adm.exc = Nothing /\ adm.self.state = HALF_OPEN THEN entered + 1 ELSE entered

Configs ==
    {CircuitBreaker(frt, ws, homc, osw) :
        frt \in Thresholds, ws \in 1..MaxWindow,
        homc \in 0..MaxHalfOpen, osw \in 0..MaxWait}

Init ==
    /\ cb \in Configs
    /\ now = 0
    /\ calls = 0
    /\ func_calls = 0
    /\ recorded = <<>>
    /\ last = [res |-> [self |-> cb, ret |-> Nothing, steps |-> <<>>, invoked |-> FALSE,
                        produced |-> Nothing, admitted |-> cb],
               before |-> cb, at |-> 0, counted |-> TRUE]
    /\ trials = 0
    /\ inflight = [t \in Threads |-> Idle]

\* what func can produce: unstable_service returns "Success!" or raises
Outcomes == {ServiceSuccess, ServiceFailed}

\* recent_calls is appended to in the else branches of _on_success and
\* _on_failure and cleared in _transition_to_closed
Recorded(rec, res) ==
    IF ~res.invoked THEN rec
    ELSE IF res.admitted.state = HALF_OPEN
         THEN (IF res.self.state = CLOSED THEN <<>> ELSE rec)
         ELSE Append(rec, res.produced.kind = "return")

\* the state after a call() made now whose func, if it runs, produces outp
\* after d units of time.  last keeps what call() returned (res), the
\* breaker before the call and the time of the call.
AfterCall(outp, d, cnt) ==
    /\ last' = [res |-> call(cb, now, outp, now + d),
                before |-> cb, at |-> now, counted |-> cnt]
    /\ cb' = last'.res.self
    /\ trials' = TrialsAfter(trials, cb, admission(cb, now))
    /\ UNCHANGED inflight

\* the counters of the calls made
Counted(d) ==
    /\ calls' = calls + 1
    /\ now' = IF last'.res.invoked THEN now + d ELSE now
    /\ func_calls' = IF last'.res.invoked THEN func_calls + 1 ELSE func_calls
    /\ recorded' = Recorded(recorded, last'.res)

\* cb.call(func)
Call(outp, d) ==
    /\ calls < MaxCalls
    /\ d = 0 \/ now + d <= MaxTime
    /\ AfterCall(outp, d, TRUE)
    /\ Counted(d)

\* an OPEN breaker whose wait has not elapsed
Waiting == cb.state = OPEN /\ now - cb.last_failure_time < cb.open_state_wait

\* time passes between two calls
Tick ==
    /\ now < MaxTime \/ Waiting
    /\ now' = now + 1
    /\ UNCHANGED <<cb, calls, func_calls, recorded, last, trials, inflight>>

Next ==
    \/ \E outp \in Outcomes, d \in 0..MaxOpTime : Call(outp, d)
    \/ Tick

Spec == Init /\ [][Next]_vars

(***************************************************************************)
(* A long run on the wide configuration.  The first calls alternate        *)
(* success and failure, which keeps the failure rate at or below 50; the   *)
(* calls after them produce anything.                                      *)
(***************************************************************************)

WideInit ==
    /\ cb = CircuitBreaker(WideConfig.failure_rate_threshold, WideConfig.window_size,
                           WideConfig.half_open_max_calls, WideConfig.open_state_wait)
    /\ now = 0
    /\ calls = 0
    /\ func_calls = 0
    /\ recorded = <<>>
    /\ last = [res |-> [self |-> cb, ret |-> Nothing, steps |-> <<>>, invoked |-> FALSE,
                        produced |-> Nothing, admitted |-> cb],
               before |-> cb, at |-> 0, counted |-> TRUE]
    /\ trials = 0
    /\ inflight = [t \in Threads |-> Idle]

\* number of alternating calls
WarmUp == WideConfig.window_size - 5

WideCall(outp, d) ==
    /\ calls < WarmUp + MaxCalls
    /\ calls < WarmUp =>
          /\ d = 0
          /\ outp = IF calls % 2 = 0 THEN ServiceSuccess ELSE ServiceFailed
    /\ d = 0 \/ now + d <= MaxTime
    /\ AfterCall(outp, d, TRUE)
    /\ Counted(d)

WideNext ==
    \/ \E outp \in Outcomes, d \in 0..MaxOpTime : WideCall(outp, d)
    \/ Tick

SpecWide == WideInit /\ [][WideNext]_vars

(***************************************************************************)
(* Recovery.  func may fail during the first MaxCalls calls; every call    *)
(* after them finds func succeeding at once.  Those later calls are not    *)
(* counted: calls, func_calls and recorded keep the values they had.       *)
(***************************************************************************)

LateCall ==
    /\ calls = MaxCalls
    /\ AfterCall(ServiceSuccess, 0, FALSE)
    /\ UNCHANGED <<now, calls, func_calls, recorded>>

LiveNext ==
    \/ \E outp \in Outcomes, d \in 0..MaxOpTime : Call(outp, d)
    \/ Tick
    \/ LateCall

\* time keeps advancing and calls keep being made
LiveSpec == Init /\ [][LiveNext]_vars /\ WF_vars(Tick) /\ WF_vars(LateCall)

(***************************************************************************)
(* Construction with any arguments.  __init__ stores its arguments as they *)
(* are; the only statement of it that can fail is deque(maxlen=n), which   *)
(* raises ValueError for a negative n.                                     *)
(***************************************************************************)

\* CircuitBreaker(frt, ws, homc, osw) as the caller sees it: the new object,
\* or the exception raised
new_CircuitBreaker(frt, ws, homc, osw) ==
    IF ws < 0
    THEN [kind |-> "raise", val |-> "ValueError: maxlen must be non-negative"]
    ELSE [kind |-> "return", val |-> CircuitBreaker(frt, ws, homc, osw)]

\* arguments tried: below, inside and above the ranges of the parameters
AnyThresholds == {-1, 50, 101}
AnyWindows    == {-1, 0, 1}
AnyWaits      == {-1, 0, 1}

AnyInit ==
    /\ \E frt \in AnyThresholds, ws \in AnyWindows, osw \in AnyWaits :
          /\ new_CircuitBreaker(frt, ws, 1, osw).kind = "return"
          /\ cb = new_CircuitBreaker(frt, ws, 1, osw).val
    /\ now = 0
    /\ calls = 0
    /\ func_calls = 0
    /\ recorded = <<>>
    /\ last = [res |-> [self |-> cb, ret |-> Nothing, steps |-> <<>>, invoked |-> FALSE,
                        produced |-> Nothing, admitted |-> cb],
               before |-> cb, at |-> 0, counted |-> TRUE]
    /\ trials = 0
    /\ inflight = [t \in Threads |-> Idle]

SpecAny == AnyInit /\ [][Next]_vars

(***************************************************************************)
(* Several callers.  call() takes no lock, so the calls of different       *)
(* threads interleave.  A call is taken in two steps: the state rules up   *)
(* to the invocation of func (lines 72-85), and, once func has returned or *)
(* raised, the handler (line 86 or 89).  Other threads run between the     *)
(* two, while func is running.                                             *)
(***************************************************************************)

\* thread t starts a call(): the state rules, then func is invoked
ThreadEnter(t) ==
    /\ inflight[t].pc = "idle"
    /\ calls < MaxCalls
    /\ last' = [res |-> [self |-> admission(cb, now).self, ret |-> admission(cb, now).exc,
                         steps |-> <<>>, invoked |-> FALSE, produced |-> Nothing,
                         admitted |-> admission(cb, now).self],
                before |-> cb, at |-> now, counted |-> TRUE]
    /\ cb' = last'.res.self
    /\ trials' = TrialsAfter(trials, cb, admission(cb, now))
    /\ inflight' = [inflight EXCEPT ![t] =
                        IF last'.res.ret = Nothing
                        THEN [pc |-> "func", mode |-> cb'.state]
                        ELSE Idle]
    /\ func_calls' = IF last'.res.ret = Nothing THEN func_calls + 1 ELSE func_calls
    /\ calls' = calls + 1
    /\ UNCHANGED <<now, recorded>>

\* the func of thread t produces outp and the handler runs
ThreadReturn(t, outp) ==
    /\ inflight[t].pc = "func"
    /\ cb' = IF outp.kind = "return" THEN on_success(cb, now) ELSE on_failure(cb, now)
    /\ last' = [res |-> [self |-> cb', ret |-> outp,
                         steps |-> IF outp.kind = "return"
                                   THEN <<"_on_success">> ELSE <<"_on_failure">>,
                         invoked |-> TRUE, produced |-> outp, admitted |-> cb],
                before |-> cb, at |-> now, counted |-> TRUE]
    /\ recorded' = Recorded(recorded, last'.res)
    /\ inflight' = [inflight EXCEPT ![t] = Idle]
    /\ UNCHANGED <<now, calls, func_calls, trials>>

ThreadsNext ==
    \/ \E t \in Threads : ThreadEnter(t)
    \/ \E t \in Threads, outp \in Outcomes : ThreadReturn(t, outp)
    \/ Tick

SpecThreads == Init /\ [][ThreadsNext]_vars

(***************************************************************************)
(* The run of the __main__ block: the configuration of lines 141-146 and   *)
(* the seven calls of lines 150-190.  The fourth call is made before the   *)
(* wait has elapsed (the script makes it at once), the fifth after it has  *)
(* (the script sleeps 4 seconds); otherwise any amount of time may pass    *)
(* between two calls and while func runs.                                  *)
(***************************************************************************)

DemoConfig == [failure_rate_threshold |-> 50, window_size |-> 4,
               half_open_max_calls |-> 2, open_state_wait |-> 3]

\* what func produces in each call, if it is invoked
DemoScript == <<ServiceSuccess, ServiceFailed, ServiceFailed, ServiceSuccess,
                ServiceSuccess, ServiceSuccess, ServiceSuccess>>

\* the clock of the run stops here
DemoMaxTime == MaxTime + 2 * DemoConfig.open_state_wait

DemoInit ==
    /\ cb = CircuitBreaker(DemoConfig.failure_rate_threshold, DemoConfig.window_size,
                           DemoConfig.half_open_max_calls, DemoConfig.open_state_wait)
    /\ now = 0
    /\ calls = 0
    /\ func_calls = 0
    /\ recorded = <<>>
    /\ last = [res |-> [self |-> cb, ret |-> Nothing, steps |-> <<>>, invoked |-> FALSE,
                        produced |-> Nothing, admitted |-> cb],
               before |-> cb, at |-> 0, counted |-> TRUE]
    /\ trials = 0
    /\ inflight = [t \in Threads |-> Idle]

DemoCall(d) ==
    /\ calls < Len(DemoScript)
    /\ calls = 3 => Waiting
    /\ calls = 4 => ~Waiting
    /\ d = 0 \/ now + d <= DemoMaxTime
    /\ AfterCall(DemoScript[calls + 1], d, TRUE)
    /\ Counted(d)

DemoTick ==
    /\ now < DemoMaxTime
    /\ now' = now + 1
    /\ UNCHANGED <<cb, calls, func_calls, recorded, last, trials, inflight>>

DemoNext ==
    \/ \E d \in 0..MaxOpTime : DemoCall(d)
    \/ DemoTick

SpecDemo == DemoInit /\ [][DemoNext]_vars

(***************************************************************************)
(* Properties.  last describes the call that produced the current cb: no   *)
(* other action changes cb.                                                *)
(***************************************************************************)

\* the call described by last ran func in the else branch of a handler
\* (the breaker was CLOSED when the call was made)
RecordedInClosed == last.res.invoked /\ last.before.state = CLOSED

\* the call described by last ran func as a HALF_OPEN test call
RecordedAsTrial == last.res.invoked /\ last.before.state # CLOSED

\* the call described by last was made in OPEN after the wait had elapsed
MadeAfterWait ==
    /\ last.before.state = OPEN
    /\ last.at - last.before.last_failure_time >= last.before.open_state_wait

\* the call described by last was made in OPEN before the wait had elapsed
MadeWithinWait ==
    /\ last.before.state = OPEN
    /\ last.at - last.before.last_failure_time < last.before.open_state_wait

\* the exact failure rate of window w is greater than thr percent
ExactRateExceeds(w, thr) == 100 * deque_count(w, FALSE) > thr * Len(w)

\* C1: a call recorded in CLOSED leaves the breaker OPEN when the failure
\* rate of the window after it is strictly greater than the threshold, and
\* CLOSED when the rate is less than or exactly equal to the threshold.
C1_TripsIffRateExceedsThreshold ==
    RecordedInClosed =>
        /\ ExactRateExceeds(cb.recent_calls, cb.failure_rate_threshold)
              => cb.state = OPEN
        /\ ~ExactRateExceeds(cb.recent_calls, cb.failure_rate_threshold)
              => cb.state = CLOSED

\* C2: a call made while OPEN with now - last_failure_time < open_state_wait
\* is rejected with CallNotPermitted (circuit OPEN) and func is not invoked:
\* the number of invocations is the same after the call as before.
C2_OpenWithinWaitRejects ==
    [][(calls' # calls /\ Waiting) =>
          /\ last'.res.ret = NotPermittedOpen
          /\ ~last'.res.invoked
          /\ func_calls' = func_calls]_vars

C2_Witness ==
    /\ MadeWithinWait
    /\ last.res.ret = NotPermittedOpen
    /\ func_calls >= 1

\* the state a test call leaves, made on breaker b whose counters are
\* those of a HALF_OPEN episode with `before` test calls, all successful
TrialResult(b, before) ==
    IF last.res.produced = ServiceFailed
    THEN /\ cb.state = OPEN
         /\ cb.half_open_calls = before + 1
         /\ cb.half_open_success = before
    ELSE /\ cb.state = IF before + 1 >= b.half_open_max_calls THEN CLOSED ELSE HALF_OPEN
         /\ cb.half_open_calls = before + 1
         /\ cb.half_open_success = before + 1

C4_TrialFailureReopens ==
    [][(calls' # calls /\ last'.res.invoked /\ cb.state # CLOSED) =>
          /\ last'.res.produced = ServiceFailed =>
                 (cb'.state = OPEN /\ cb'.last_failure_time = now')
          /\ cb.state = OPEN =>
                 cb'.half_open_success = IF last'.res.produced = ServiceFailed THEN 0 ELSE 1]_vars

\* a test call fails after an earlier one of the same episode succeeded
C4_Witness ==
    /\ last.res.invoked
    /\ last.res.produced = ServiceFailed
    /\ last.before.state = HALF_OPEN
    /\ last.before.half_open_success >= 1
    /\ cb.state = OPEN
    /\ cb.last_failure_time > last.before.last_failure_time

\* C5: the breaker goes from HALF_OPEN to CLOSED exactly on the successful
\* test call that makes the episode's successes half_open_max_calls, and
\* recent_calls is then empty; after fewer successes it is still HALF_OPEN.
C5_ClosesOnLastTrialSuccess ==
    LET earlier == IF last.before.state = HALF_OPEN
                   THEN last.before.half_open_success ELSE 0
        closing == /\ RecordedAsTrial
                   /\ last.res.produced = ServiceSuccess
                   /\ earlier + 1 = last.before.half_open_max_calls
    IN  /\ closing => (cb.state = CLOSED /\ cb.recent_calls = <<>>)
        /\ (RecordedAsTrial /\ last.res.produced = ServiceSuccess /\ ~closing)
              => (cb.state = HALF_OPEN /\ earlier + 1 < cb.half_open_max_calls)
        /\ (last.before.state # CLOSED /\ cb.state = CLOSED) => closing

\* the second of two test calls closes a breaker whose window held results
C5_Witness ==
    /\ last.before.state = HALF_OPEN
    /\ last.before.half_open_success = 1
    /\ last.before.half_open_max_calls = 2
    /\ last.before.recent_calls # <<>>
    /\ last.res.produced = ServiceSuccess
    /\ cb.state = CLOSED
    /\ cb.recent_calls = <<>>

\* the last n items of sequence q
LastN(q, n) == SubSeq(q, Len(q) - n + 1, Len(q))

\* C6: recent_calls never holds more than window_size items, and it is
\* always the last min(n, window_size) of the n outcomes recorded in CLOSED
\* since it was last cleared, in order: a full window drops its oldest item.
C6_WindowIsLastOutcomes ==
    /\ Len(cb.recent_calls) <= cb.window_size
    /\ cb.recent_calls =
          LastN(recorded, IF Len(recorded) < cb.window_size
                          THEN Len(recorded) ELSE cb.window_size)

\* more outcomes were recorded than the window holds, and they differ
C6_Witness ==
    /\ Len(recorded) > cb.window_size
    /\ Len(cb.recent_calls) = cb.window_size
    /\ recorded[1] # recorded[Len(recorded)]

\* C7: with half_open_max_calls >= 1, once every invoked func succeeds
\* (the first MaxCalls calls are over), the breaker eventually is CLOSED and
\* stays CLOSED, admitting every call, whatever state it was in.
C7_RecoversWhenFuncSucceeds ==
    (calls = MaxCalls /\ cb.half_open_max_calls >= 1)
        ~> [](/\ cb.state = CLOSED
              /\ (~last.counted /\ last.before.state = CLOSED) => last.res.invoked)

\* a call after the first MaxCalls closes the breaker
C7_Witness ==
    /\ ~last.counted
    /\ last.before.state = HALF_OPEN
    /\ cb.state = CLOSED
    /\ cb.half_open_max_calls >= 1

\* C8: a call that runs func runs exactly one handler, _on_success if func
\* returned and _on_failure if it raised, which records the outcome once,
\* and hands the caller what func produced; a rejected call runs no handler,
\* raises CallNotPermitted and records nothing.
C8_OutcomeRecordedOnceAndPassedOn ==
    IF last.res.invoked
    THEN /\ last.res.produced \in Outcomes
         /\ last.res.ret = last.res.produced
         /\ last.res.steps = <<IF last.res.produced = ServiceSuccess
                           THEN "_on_success" ELSE "_on_failure">>
         /\ RecordedInClosed =>
               /\ cb.recent_calls # <<>>
               /\ cb.recent_calls[Len(cb.recent_calls)] = (last.res.produced = ServiceSuccess)
               /\ Len(recorded) >= 1
         /\ RecordedAsTrial =>
               cb.half_open_calls =
                   1 + (IF last.before.state = HALF_OPEN
                        THEN last.before.half_open_calls ELSE 0)
    ELSE /\ last.res.produced = Nothing
         /\ last.res.steps = <<>>
         /\ last.res.ret \in {Nothing, NotPermittedOpen, NotPermittedHalfOpen}
         /\ last.res.ret = Nothing <=> calls = 0
         /\ cb.recent_calls = last.before.recent_calls
         /\ cb.half_open_calls \in {0, last.before.half_open_calls}
         /\ cb.half_open_success \in {0, last.before.half_open_success}

\* func raised in a CLOSED breaker that stayed CLOSED, and the caller got
\* that exception
C8_Witness ==
    /\ RecordedInClosed
    /\ last.res.produced = ServiceFailed
    /\ last.res.ret = ServiceFailed
    /\ cb.state = CLOSED
    /\ func_calls >= 2

C10_RateIsExactPercentage ==
    \A thr \in 0..100 :
        fgt[current_failure_rate(cb), thr] <=> ExactRateExceeds(cb.recent_calls, thr)

\* the configuration is one the parameters allow: a positive window_size,
\* failure_rate_threshold within 0..100, a non-negative open_state_wait
ValidConfig(self) ==
    /\ self.window_size >= 1
    /\ self.failure_rate_threshold >= 0
    /\ self.failure_rate_threshold <= 100
    /\ self.open_state_wait >= 0

\* C11: with threshold 50, window 4, 2 test calls and wait 3, the calls
\* success, failure, failure leave the window [T,F,F] and the breaker OPEN;
\* the next call, made before the wait has elapsed, is rejected (circuit
\* OPEN); a successful call after the wait leaves HALF_OPEN with 1 of 2
\* test calls, a second one CLOSED with an empty window, and one more
\* leaves CLOSED with window [T].
C11_DemoRun ==
    /\ calls = 1 => (cb.state = CLOSED /\ cb.recent_calls = <<TRUE>>)
    /\ calls = 2 => (cb.state = CLOSED /\ cb.recent_calls = <<TRUE, FALSE>>)
    /\ calls = 3 => (cb.state = OPEN /\ cb.recent_calls = <<TRUE, FALSE, FALSE>>)
    /\ calls = 4 => /\ last.res.ret = NotPermittedOpen
                    /\ ~last.res.invoked
                    /\ cb.state = OPEN
    /\ calls = 5 => /\ last.res.ret = ServiceSuccess
                    /\ cb.state = HALF_OPEN
                    /\ cb.half_open_calls = 1
                    /\ cb.half_open_success = 1
                    /\ cb.half_open_max_calls = 2
    /\ calls = 6 => /\ last.res.ret = ServiceSuccess
                    /\ cb.state = CLOSED
                    /\ cb.recent_calls = <<>>
    /\ calls = 7 => /\ last.res.ret = ServiceSuccess
                    /\ cb.state = CLOSED
                    /\ cb.recent_calls = <<TRUE>>

\* the run has ended, and its fifth call came more than 3 after the trip
C11_Witness ==
    /\ calls = 7
    /\ func_calls = 6
    /\ cb.state = CLOSED
    /\ cb.recent_calls = <<TRUE>>
    /\ now > cb.last_failure_time + cb.open_state_wait

\* C12: construction with a window_size that is not positive, a
\* failure_rate_threshold outside 0..100 or a negative open_state_wait
\* fails, so a breaker that has handled a call has a valid configuration.
C12_InvalidConfigNeverHandlesCall ==
    calls > 0 => ValidConfig(cb)

\* C13: when callers interleave, the number of times func is invoked as a
\* test call during one HALF_OPEN episode never exceeds
\* half_open_max_calls.
C13_TrialsWithinBudget ==
    trials <= cb.half_open_max_calls

\* the mode changes of the state machine
ModeChanges == {<<CLOSED, OPEN>>, <<OPEN, HALF_OPEN>>,
                <<HALF_OPEN, CLOSED>>, <<HALF_OPEN, OPEN>>}

\* from mode a to mode b there is no change or one of the mode changes
Hop(a, b) == a = b \/ <<a, b>> \in ModeChanges

\* C14: the breaker starts CLOSED with an empty window, and every mode
\* change is CLOSED to OPEN, OPEN to HALF_OPEN, HALF_OPEN to CLOSED or
\* HALF_OPEN to OPEN: each call changes the mode at most once in its state
\* rules and at most once in its handler, and nothing else changes it.
C14_OnlyAllowedModeChanges ==
    /\ calls = 0 => (cb.state = CLOSED /\ cb.recent_calls = <<>>)
    /\ cb = last.res.self
    /\ Hop(last.before.state, last.res.admitted.state)
    /\ Hop(last.res.admitted.state, cb.state)
    /\ last.before.state = CLOSED => last.res.admitted.state = CLOSED

\* one call takes an OPEN breaker to HALF_OPEN and from there to CLOSED
C14_Witness ==
    /\ last.before.state = OPEN
    /\ last.res.admitted.state = HALF_OPEN
    /\ cb.state = CLOSED
    /\ last.res.invoked

\* C15: no outcome is recorded while the breaker is OPEN, even when callers
\* interleave: a handler that finds the breaker OPEN (its call was admitted
\* earlier, its func ended after the trip) appends nothing to recent_calls
\* and does not move last_failure_time.
C15_NoRecordingWhileOpen ==
    (last.res.invoked /\ last.res.admitted.state = OPEN) =>
        /\ cb.recent_calls = last.res.admitted.recent_calls
        /\ cb.last_failure_time = last.res.admitted.last_failure_time

\* C16: last_failure_time is written on each entry into OPEN, with the
\* time of that moment, and is not changed while the breaker stays OPEN: a
\* handler that leaves the breaker OPEN has just entered OPEN and has set
\* last_failure_time to the present time; a rejected call and the passing
\* of time leave it as it was.
C16_OpenedAtSetOnEntryOnly ==
    [][cb'.state = OPEN =>
          IF calls' # calls /\ last'.res.invoked
          THEN /\ last'.res.admitted.state # OPEN
               /\ cb'.last_failure_time = now'
          ELSE /\ cb.state = OPEN
               /\ cb'.last_failure_time = cb.last_failure_time]_vars

\* a call is rejected, some time after the trip, by a breaker that
\* re-entered OPEN when a test call failed
C16_Witness ==
    /\ last.res.ret = NotPermittedOpen
    /\ cb.state = OPEN
    /\ last.at > cb.last_failure_time
    /\ cb.last_failure_time = last.before.last_failure_time
    /\ cb.last_failure_time >= 1
    /\ cb.half_open_calls >= 1

\* C17: in every reachable state half_open_success <= half_open_calls.
C17_SuccessesWithinAttempts ==
    cb.half_open_success <= cb.half_open_calls

\* a test call failed after another of the same episode had succeeded
C17_Witness ==
    /\ cb.half_open_success >= 1
    /\ cb.half_open_success < cb.half_open_calls
    /\ cb.state = OPEN

\* C18: a call recorded in CLOSED leaves half_open_calls and
\* half_open_success as they were; a call made while the breaker is not
\* CLOSED (a test call or a rejected one) leaves recent_calls as it was,
\* until the test call that closes the breaker clears it.
C18_CountersAndWindowInOwnMode ==
    /\ RecordedInClosed =>
          /\ cb.half_open_calls = last.before.half_open_calls
          /\ cb.half_open_success = last.before.half_open_success
    /\ last.before.state # CLOSED =>
          cb.recent_calls = IF cb.state = CLOSED THEN <<>> ELSE last.before.recent_calls

\* a failed test call reopens a breaker whose window holds the results it
\* tripped on
C18_Witness ==
    /\ RecordedAsTrial
    /\ last.res.produced = ServiceFailed
    /\ cb.state = OPEN
    /\ cb.recent_calls # <<>>
    /\ cb.recent_calls = last.before.recent_calls

\* C19: with one sequential caller, whenever the breaker is CLOSED between
\* calls the failure rate of its window is <= failure_rate_threshold, and a
\* successful call recorded in CLOSED never moves the breaker to OPEN.
C19_ClosedMeansRateWithinThreshold ==
    /\ cb.state = CLOSED =>
          /\ ~ExactRateExceeds(cb.recent_calls, cb.failure_rate_threshold)
          /\ ~fgt[current_failure_rate(cb), cb.failure_rate_threshold]
    /\ (RecordedInClosed /\ last.res.produced = ServiceSuccess) => cb.state = CLOSED

\* C20: with one sequential caller and half_open_max_calls >= 1, whenever
\* the breaker is HALF_OPEN between calls half_open_success =
\* half_open_calls < half_open_max_calls; no call is rejected for too many
\* test calls, and every rejected call was made in OPEN before the wait had
\* elapsed.
C20_HalfOpenHasBudgetLeft ==
    cb.half_open_max_calls >= 1 =>
        /\ cb.state = HALF_OPEN =>
              /\ cb.half_open_success = cb.half_open_calls
              /\ cb.half_open_calls < cb.half_open_max_calls
        /\ last.res.ret # NotPermittedHalfOpen
        /\ (last.res.ret # Nothing /\ ~last.res.invoked) =>
              (last.res.ret = NotPermittedOpen /\ MadeWithinWait)

\* between the first and the second of two test calls
C20_Witness ==
    /\ cb.state = HALF_OPEN
    /\ cb.half_open_max_calls = 2
    /\ cb.half_open_calls = 1
    /\ cb.half_open_success = 1
    /\ last.res.invoked

====
